---- MODULE Spec2Model ----
(***************************************************************************)
(* sqldict.py: SqlDict, a dict-like facade over one sqlite table, and      *)
(* SqliteMultithread, the worker thread that owns the sqlite connection    *)
(* and executes the requests that caller threads put on its queue.         *)
(***************************************************************************)
EXTENDS Integers, Sequences, FiniteSets, TLC

\* ------------------------------------------------------------------ bounds
\* Requests the constructor and the callers may enqueue in one behaviour:
\* of Spec, of SpecSingle (one caller thread) and of SpecWriters (callers
\* that only write, commit and ask for the length).
MaxReqs == 5

MaxSingleReqs == 5

MaxWriterReqs == 6
\* ... with one caller that writes, clears and probes
MaxClearReqs == 6
\* ... with one caller that writes and iterates over the keys
MaxIterReqs == 5
\* ... with two callers that write and delete
MaxDeleteReqs == 6

Threads == {"t1", "t2"}
Keys == {"a", "b"}
Vals == {"x", "y"}

\* res=None of SqliteMultithread.execute: a request without a result queue.
NoRes == 0

\* ------------------------------------------------------------- statements
MAKE_TABLE == "CREATE TABLE IF NOT EXISTS"
ADD_ITEM == "REPLACE INTO"
DEL_ITEM == "DELETE FROM WHERE key"
GET_ITEM == "SELECT value WHERE key"
HAS_ITEM == "SELECT 1 WHERE key"
GET_LEN == "SELECT COUNT(*)"
GET_KEYS == "SELECT key"
\* The statement of __bool__, which the code also names GET_LEN.
GET_MAX_ROWID == "SELECT MAX(ROWID)"
CLEAR_ALL == "DELETE FROM"
\* A statement the engine rejects (syntax error, unknown table, ...), given
\* to SqliteMultithread.execute / select by a caller.
BAD_STMT == "bad statement"
COMMIT == "--commit--"
CLOSE == "--close--"
NO_MORE == "--no more--"

\* ------------------------------------------------------------------ codec
encode(obj) == <<"pickle", obj>>

decode(obj) == obj[2]

\* --------------------------------------------------- the table, in sqlite
\* A table is the sequence of its rows in ROWID order.
RowOf(k, b) == [key |-> k, value |-> b]

HasKey(tbl, k) == \E i \in 1..Len(tbl) : tbl[i].key = k

Without(tbl, k) ==
    LET Keep(r) == r.key # k IN SelectSeq(tbl, Keep)

\* An insert that leaves the old row of the key in the table.
Replace_keep(tbl, k, b) == Append(tbl, RowOf(k, b))

\* REPLACE INTO: the row with the same primary key is deleted, the new row
\* is inserted with a fresh (largest) ROWID.
Replace(tbl, k, b) == Append(Without(tbl, k), RowOf(k, b))

\* MAX(ROWID): an aggregate yields NULL over no rows. The callers never read
\* the number, it is kept as the one value "rowid".
MaxRowid(tbl) == IF tbl = <<>> THEN "NULL" ELSE "rowid"

\* The rows a SELECT yields, each a tuple, in ROWID order. An aggregate
\* yields one row whatever the table holds.
SelectRows(req, arg, tbl) ==
    CASE req = GET_ITEM ->
           LET Match(r) == r.key = arg[1]
               hit == SelectSeq(tbl, Match)
           IN [i \in 1..Len(hit) |-> <<hit[i].value>>]
      [] req = HAS_ITEM ->
           LET Match(r) == r.key = arg[1]
               hit == SelectSeq(tbl, Match)
           IN [i \in 1..Len(hit) |-> <<1>>]
      [] req = GET_LEN -> << <<Len(tbl)>> >>
      [] req = GET_KEYS -> [i \in 1..Len(tbl) |-> <<tbl[i].key>>]
      [] req = GET_MAX_ROWID -> << <<MaxRowid(tbl)>> >>
      [] OTHER -> <<>>

\* The table after cursor.execute(req, arg).
Apply(req, arg, tbl) ==
    CASE req = ADD_ITEM -> Replace(tbl, arg[1], arg[2])
      [] req = DEL_ITEM -> Without(tbl, arg[1])
      [] req = CLEAR_ALL -> <<>>
      [] OTHER -> tbl

\* cursor.execute raises: the statement is invalid, or names a table that
\* does not exist.
Raises(req, exists) == req = BAD_STMT \/ (req # MAKE_TABLE /\ ~exists)

\* --------------------------------------------------------- result queues
Row(data) == [kind |-> "row", data |-> data]

NoMore == [kind |-> NO_MORE]

IsNoMore(rec) == rec.kind = NO_MORE

\* ------------------------------------------------------------------ state
VARIABLES
    ctor,        \* progress of SqlDict.__init__
    autocommit,  \* SqliteMultithread.autocommit
    canOpen,     \* whether sqlite3.connect(filename) succeeds
    sdconn,      \* SqlDict.conn: "conn" or "None"
    reqs,        \* SqliteMultithread.reqs
    nextId,      \* requests put on reqs so far
    wpc,         \* position of the worker thread in run()
    cur,         \* run(): req, arg, res of the request dequeued last
    cursor,      \* run(): rows the cursor has still to yield
    connState,   \* run(): conn is "none", "open" or "closed"
    db,          \* the table as the connection sees it
    committed,   \* the table as committed to the database file
    exists,      \* the table exists in the database file
    sinks,       \* the result queues alive, by the request they belong to
    tpc,         \* position of each caller thread
    tkey,        \* the key of the caller's operation
    tsink,       \* the result queue the caller reads
    tacc,        \* keys(): the rows pulled so far
    ret,         \* what the caller's last operation returned or raised
    gen,         \* the iterkeys() generator the caller holds, not yet started
    \* the run
    limit,       \* requests that may be enqueued in this behaviour
    actors,      \* the caller threads that use the dictionary
    \* history variables
    completed,   \* the request the worker finished last
    connUsers,   \* the threads that have used the connection
    abs,         \* the mapping as submitted: key -> value or "missing"
    last,        \* per key: who submitted its last write, its value before
    expect       \* per caller: the answer the submitted mapping gives

vars == <<ctor, autocommit, canOpen, sdconn, reqs, nextId, wpc, cur, cursor,
          connState, db, committed, exists, sinks, tpc, tkey, tsink, tacc,
          ret, gen, limit, actors, completed, connUsers, abs, last,
          expect>>

runVars == <<autocommit, canOpen, limit, actors>>

workerVars == <<wpc, cur, cursor, connState, db, committed, exists,
                completed, connUsers>>

callerVars == <<tpc, tkey, tsink, tacc, ret, gen, expect>>

Worker == "worker"

NoReq == [seq |-> 0, req |-> "", arg |-> <<>>, res |-> NoRes]

NoRet == [op |-> "", out |-> ""]

\* The database file before the program starts: absent or without the
\* table, or holding the table with some rows from an earlier run.
InitTables == {<<>>, <<RowOf("a", encode("x"))>>}

AbsOf(tbl) ==
    [k \in Keys |->
        IF HasKey(tbl, k)
        THEN decode(tbl[CHOOSE i \in 1..Len(tbl) : tbl[i].key = k].value)
        ELSE "missing"]

NoWrite == [by |-> "", prev |-> ""]

\* No generator; a generator object whose body has not begun to run, with
\* the keys of the submitted mapping when it was made.
NoGen == [state |-> "none", at |-> {}]

Created(at) == [state |-> "created", at |-> at]

Start ==
    /\ ctor = "new"
    /\ autocommit \in BOOLEAN
    /\ canOpen \in BOOLEAN
    /\ sdconn = "None"
    /\ reqs = <<>>
    /\ nextId = 0
    /\ wpc = "unstarted"
    /\ cur = NoReq
    /\ cursor = <<>>
    /\ connState = "none"
    /\ committed \in InitTables
    /\ db = committed
    /\ exists \in IF committed = <<>> THEN BOOLEAN ELSE {TRUE}
    /\ sinks = <<>>
    /\ tpc = [t \in Threads |-> "idle"]
    /\ tkey = [t \in Threads |-> ""]
    /\ tsink = [t \in Threads |-> NoRes]
    /\ tacc = [t \in Threads |-> <<>>]
    /\ ret = [t \in Threads |-> NoRet]
    /\ gen = [t \in Threads |-> NoGen]
    /\ completed = 0
    /\ connUsers = {}
    /\ abs = AbsOf(committed)
    /\ last = [k \in Keys |-> NoWrite]
    /\ expect = [t \in Threads |-> ""]

Init == Start /\ limit = MaxReqs /\ actors = Threads

InitSingle == Start /\ limit = MaxSingleReqs /\ actors = {"t1"}

InitWriters == Start /\ limit = MaxWriterReqs /\ actors = Threads

InitClear == Start /\ limit = MaxClearReqs /\ actors = {"t1"}

InitIter == Start /\ limit = MaxIterReqs /\ actors = {"t1"}

InitDelete == Start /\ limit = MaxDeleteReqs /\ actors = Threads

\* ------------------------------------------------------ the request queue
\* A bounded queue: put waits while the queue is full.
CanPut_bounded(q) == Len(q) < 2

\* Queue(): a queue of unlimited size, put never waits for room.
CanPut(q) == TRUE

\* A put that is not synchronised with the puts of other threads and writes
\* over the item put last.
put_overwrite(q, item) ==
    IF q = <<>> THEN <<item>> ELSE [q EXCEPT ![Len(q)] = item]

\* A get that takes the newest item.
QueueGet_newest(q) == Len(q)

put(q, item) == Append(q, item)

\* Queue.get(): the position of the item a get takes, the oldest.
QueueGet(q) == 1

Remove(q, i) == [j \in 1..(Len(q) - 1) |-> IF j < i THEN q[j] ELSE q[j + 1]]

\* SqliteMultithread.execute: queue up the request and return.
execute(q, seq, req, arg, res) ==
    put(q, [seq |-> seq, req |-> req, arg |-> arg, res |-> res])

\* The submitted mapping after one more request.
AbsAfter(req, arg) ==
    CASE req = ADD_ITEM -> [abs EXCEPT ![arg[1]] = decode(arg[2])]
      [] req = DEL_ITEM -> [abs EXCEPT ![arg[1]] = "missing"]
      [] req = CLEAR_ALL -> [k \in Keys |-> "missing"]
      [] OTHER -> abs

LastAfter(t, req, arg) ==
    IF req \in {ADD_ITEM, DEL_ITEM}
    THEN [last EXCEPT ![arg[1]] = [by |-> t, prev |-> abs[arg[1]]]]
    ELSE last

\* A call of self.execute(req, arg) by thread t.
Submit(t, req, arg) ==
    /\ nextId < limit
    /\ CanPut(reqs)
    /\ reqs' = execute(reqs, nextId + 1, req, arg, NoRes)
    /\ nextId' = nextId + 1
    /\ abs' = AbsAfter(req, arg)
    /\ last' = LastAfter(t, req, arg)
    /\ sinks' = sinks

\* select(): res = Queue(); self.execute(req, arg, res).
SubmitSelect(req, arg) ==
    /\ nextId < limit
    /\ CanPut(reqs)
    /\ reqs' = execute(reqs, nextId + 1, req, arg, nextId + 1)
    /\ nextId' = nextId + 1
    /\ abs' = abs
    /\ last' = last
    /\ sinks' = sinks @@ ((nextId + 1) :> <<>>)

\* A result queue of limited size: put waits while the queue is full.
ResCanPut_bounded(s, id) == id \in DOMAIN s => Len(s[id]) < 1

\* res = Queue(): a queue of unlimited size, res.put never waits for room,
\* whatever the reader has taken.
ResCanPut(s, id) == TRUE

\* One result queue for all selects: the oldest one alive takes every put.
SinkPut_shared(s, id, item) ==
    IF DOMAIN s = {}
    THEN s
    ELSE LET m == CHOOSE i \in DOMAIN s : \A j \in DOMAIN s : i <= j
         IN [s EXCEPT ![m] = Append(@, item)]

SinkPut(s, id, item) ==
    IF id \in DOMAIN s THEN [s EXCEPT ![id] = Append(@, item)] ELSE s

\* A result queue nobody reads any more is garbage.
SinkDrop(s, id) == [i \in (DOMAIN s) \ {id} |-> s[i]]

\* --------------------------------------------------------- construction
\* SqliteMultithread.__init__: the queue is created, the thread started.
SqliteMultithread_init ==
    /\ ctor = "new"
    /\ ctor' = "started"
    /\ wpc' = "connect"
    /\ UNCHANGED runVars
    /\ UNCHANGED <<sdconn, reqs, nextId, cur, cursor, connState, db,
                   committed, exists, sinks, completed, connUsers, abs, last>>
    /\ UNCHANGED callerVars

\* SqlDict.__init__: self.conn = ...; self.conn.execute(MAKE_TABLE).
SqlDict_init_make ==
    /\ ctor = "started"
    /\ ctor' = "made"
    /\ sdconn' = "conn"
    /\ Submit("main", MAKE_TABLE, <<>>)
    /\ UNCHANGED runVars
    /\ UNCHANGED workerVars
    /\ UNCHANGED callerVars

\* SqlDict.__init__: self.conn.commit(), and the constructor returns.
SqlDict_init_commit ==
    /\ ctor = "made"
    /\ ctor' = "returned"
    /\ Submit("main", COMMIT, <<>>)
    /\ UNCHANGED sdconn
    /\ UNCHANGED runVars
    /\ UNCHANGED workerVars
    /\ UNCHANGED callerVars

\* ------------------------------------------------------------ the worker
\* run(): conn = sqlite3.connect(...); cursor = conn.cursor().
run_connect ==
    /\ wpc = "connect"
    /\ IF canOpen
       THEN /\ wpc' = "get"
            /\ connState' = "open"
            /\ connUsers' = connUsers \cup {Worker}
       ELSE /\ wpc' = "crashed"
            /\ UNCHANGED <<connState, connUsers>>
    /\ UNCHANGED runVars
    /\ UNCHANGED <<ctor, sdconn, reqs, nextId, cur, cursor, db, committed,
                   exists, sinks, completed, abs, last>>
    /\ UNCHANGED callerVars

\* A loop that goes on after '--close--'.
Dispatch_no_break(req) ==
    IF req = CLOSE THEN "get"
    ELSE IF req = COMMIT THEN "commit"
    ELSE "exec"

\* run(): where the loop goes with the request it took.
Dispatch(req) ==
    IF req = CLOSE THEN "close"
    ELSE IF req = COMMIT THEN "commit"
    ELSE "exec"

\* run(): req, arg, res = self.reqs.get().
run_get ==
    /\ wpc = "get"
    /\ reqs # <<>>
    /\ cur' = reqs[QueueGet(reqs)]
    /\ reqs' = Remove(reqs, QueueGet(reqs))
    /\ wpc' = Dispatch(cur'.req)
    /\ UNCHANGED runVars
    /\ UNCHANGED <<ctor, sdconn, nextId, cursor, connState, db, committed,
                   exists, sinks, completed, connUsers, abs, last>>
    /\ UNCHANGED callerVars

\* run(): conn.commit() for a '--commit--' request.
run_commit ==
    /\ wpc = "commit"
    /\ committed' = db
    /\ completed' = cur.seq
    /\ connUsers' = connUsers \cup {Worker}
    /\ wpc' = "get"
    /\ UNCHANGED runVars
    /\ UNCHANGED <<ctor, sdconn, reqs, nextId, cur, cursor, connState, db,
                   exists, sinks, abs, last>>
    /\ UNCHANGED callerVars

\* run(): cursor.execute(req, arg). An exception leaves run(), the thread
\* ends. A statement that is no SELECT or DML commits the open transaction
\* first and is not part of a transaction itself.
run_execute ==
    /\ wpc = "exec"
    /\ connUsers' = connUsers \cup {Worker}
    /\ IF Raises(cur.req, exists)
       THEN /\ wpc' = "crashed"
            /\ UNCHANGED <<db, committed, exists, cursor>>
       ELSE /\ db' = Apply(cur.req, cur.arg, db)
            /\ committed' = IF cur.req = MAKE_TABLE THEN db ELSE committed
            /\ exists' = (exists \/ cur.req = MAKE_TABLE)
            /\ cursor' = SelectRows(cur.req, cur.arg, db)
            /\ wpc' = IF cur.res # NoRes THEN "rows" ELSE "autocommit"
    /\ UNCHANGED runVars
    /\ UNCHANGED <<ctor, sdconn, reqs, nextId, cur, connState, sinks,
                   completed, abs, last>>
    /\ UNCHANGED callerVars

\* run(): for rec in cursor: res.put(rec).
run_put_rec ==
    /\ wpc = "rows"
    /\ cursor # <<>>
    /\ ResCanPut(sinks, cur.res)
    /\ sinks' = SinkPut(sinks, cur.res, Row(Head(cursor)))
    /\ cursor' = Tail(cursor)
    /\ connUsers' = connUsers \cup {Worker}
    /\ UNCHANGED runVars
    /\ UNCHANGED <<ctor, sdconn, reqs, nextId, wpc, cur, connState, db,
                   committed, exists, completed, abs, last>>
    /\ UNCHANGED callerVars

\* run(): res.put('--no more--').
run_put_no_more ==
    /\ wpc = "rows"
    /\ cursor = <<>>
    /\ ResCanPut(sinks, cur.res)
    /\ sinks' = SinkPut(sinks, cur.res, NoMore)
    /\ wpc' = "autocommit"
    /\ UNCHANGED runVars
    /\ UNCHANGED <<ctor, sdconn, reqs, nextId, cur, cursor, connState, db,
                   committed, exists, completed, connUsers, abs, last>>
    /\ UNCHANGED callerVars

\* A worker that leaves the commit to the next '--commit--'.
run_autocommit_never ==
    /\ wpc = "autocommit"
    /\ completed' = cur.seq
    /\ wpc' = "get"
    /\ UNCHANGED runVars
    /\ UNCHANGED <<ctor, sdconn, reqs, nextId, cur, cursor, connState, db,
                   committed, exists, sinks, connUsers, abs, last>>
    /\ UNCHANGED callerVars

\* run(): if self.autocommit: conn.commit().
run_autocommit ==
    /\ wpc = "autocommit"
    /\ committed' = IF autocommit THEN db ELSE committed
    /\ connUsers' = IF autocommit THEN connUsers \cup {Worker} ELSE connUsers
    /\ completed' = cur.seq
    /\ wpc' = "get"
    /\ UNCHANGED runVars
    /\ UNCHANGED <<ctor, sdconn, reqs, nextId, cur, cursor, connState, db,
                   exists, sinks, abs, last>>
    /\ UNCHANGED callerVars

\* A close that commits before it closes the connection.
run_close_commit ==
    /\ wpc = "close"
    /\ connState' = "closed"
    /\ committed' = db
    /\ connUsers' = connUsers \cup {Worker}
    /\ completed' = cur.seq
    /\ wpc' = "stopped"
    /\ UNCHANGED runVars
    /\ UNCHANGED <<ctor, sdconn, reqs, nextId, cur, cursor, db, exists,
                   sinks, abs, last>>
    /\ UNCHANGED callerVars

\* A '--close--' that closes the connection and goes on with the loop.
run_close_resume ==
    /\ wpc = "close"
    /\ connState' = "closed"
    /\ db' = committed
    /\ connUsers' = connUsers \cup {Worker}
    /\ completed' = cur.seq
    /\ wpc' = "get"
    /\ UNCHANGED runVars
    /\ UNCHANGED <<ctor, sdconn, reqs, nextId, cur, cursor, committed,
                   exists, sinks, abs, last>>
    /\ UNCHANGED callerVars

\* run(): break on '--close--', then conn.close(). Closing the connection
\* rolls back what was not committed.
run_close ==
    /\ wpc = "close"
    /\ connState' = "closed"
    /\ db' = committed
    /\ connUsers' = connUsers \cup {Worker}
    /\ completed' = cur.seq
    /\ wpc' = "stopped"
    /\ UNCHANGED runVars
    /\ UNCHANGED <<ctor, sdconn, reqs, nextId, cur, cursor, committed,
                   exists, sinks, abs, last>>
    /\ UNCHANGED callerVars

\* A dictionary with a lock around __delitem__: no call begins while a
\* thread is between its existence check and its delete statement.
Ready_locked(t) ==
    /\ ctor = "returned"
    /\ t \in actors
    /\ tpc[t] = "idle"
    /\ \A u \in Threads : tpc[u] # "delitem_del"

\* ----------------------------------------------------- the caller threads
Ready(t) == ctor = "returned" /\ t \in actors /\ tpc[t] = "idle"

\* The caller thread t moves on: its position, key, result queue, rows
\* pulled, result and expected answer; the generator it holds stays.
Caller(t, pc, key, sink, acc, r, e) ==
    /\ tpc' = [tpc EXCEPT ![t] = pc]
    /\ tkey' = [tkey EXCEPT ![t] = key]
    /\ tsink' = [tsink EXCEPT ![t] = sink]
    /\ tacc' = [tacc EXCEPT ![t] = acc]
    /\ ret' = [ret EXCEPT ![t] = r]
    /\ expect' = [expect EXCEPT ![t] = e]
    /\ gen' = gen

AbsGet(k) == IF abs[k] = "missing" THEN "KeyError" ELSE abs[k]

AbsLen == Cardinality({k \in Keys : abs[k] # "missing"})

\* SqlDict.__setitem__
setitem(t, k, v) ==
    /\ Ready(t)
    /\ sdconn = "conn"
    /\ Submit(t, ADD_ITEM, <<k, encode(v)>>)
    /\ UNCHANGED <<ctor, sdconn>>
    /\ UNCHANGED runVars
    /\ UNCHANGED workerVars
    /\ Caller(t, "idle", "", NoRes, <<>>, NoRet, "")

\* The dicts the callers pass to update, each as the sequence of its items
\* in iteration order.
UpdateItems == {<<>>, << <<"a", "y">>, <<"b", "x">> >>}

\* The items of an update, encoded.
Encoded(items) ==
    [i \in 1..Len(items) |-> <<items[i][1], encode(items[i][2])>>]

\* An update that enqueues the items from the last to the first.
update_reversed(t, items) ==
    /\ Ready(t)
    /\ sdconn = "conn"
    /\ IF items = <<>>
       THEN /\ Caller(t, "idle", "", NoRes, <<>>, NoRet, "")
            /\ UNCHANGED <<reqs, nextId, sinks, abs, last>>
       ELSE /\ Submit(t, ADD_ITEM, Encoded(items)[Len(items)])
            /\ Caller(t, IF Len(items) = 1 THEN "idle" ELSE "executemany",
                      "", NoRes, SubSeq(Encoded(items), 1, Len(items) - 1),
                      NoRet, "")
    /\ UNCHANGED <<ctor, sdconn>>
    /\ UNCHANGED runVars
    /\ UNCHANGED workerVars

\* SqlDict.update: items = [(k, encode(v)) for k, v in items.iteritems()],
\* then self.conn.executemany up to its first self.execute(req, item); with
\* no items the loop is over at once and update returns.
update(t, items) ==
    /\ Ready(t)
    /\ sdconn = "conn"
    /\ IF items = <<>>
       THEN /\ Caller(t, "idle", "", NoRes, <<>>, NoRet, "")
            /\ UNCHANGED <<reqs, nextId, sinks, abs, last>>
       ELSE /\ Submit(t, ADD_ITEM, Head(Encoded(items)))
            /\ Caller(t, IF Len(items) = 1 THEN "idle" ELSE "executemany",
                      "", NoRes, Tail(Encoded(items)), NoRet, "")
    /\ UNCHANGED <<ctor, sdconn>>
    /\ UNCHANGED runVars
    /\ UNCHANGED workerVars

\* SqliteMultithread.executemany: self.execute(req, item) for the next
\* item; after the last one update returns.
executemany_execute(t) ==
    /\ tpc[t] = "executemany"
    /\ tacc[t] # <<>>
    /\ Submit(t, ADD_ITEM, Head(tacc[t]))
    /\ Caller(t, IF Len(tacc[t]) = 1 THEN "idle" ELSE "executemany", "",
              NoRes, Tail(tacc[t]), NoRet, "")
    /\ UNCHANGED <<ctor, sdconn>>
    /\ UNCHANGED runVars
    /\ UNCHANGED workerVars

\* SqlDict.__getitem__, up to the first res.get() of select_one.
getitem(t, k) ==
    /\ Ready(t)
    /\ sdconn = "conn"
    /\ SubmitSelect(GET_ITEM, <<k>>)
    /\ Caller(t, "getitem", k, nextId + 1, <<>>, NoRet, AbsGet(k))
    /\ UNCHANGED <<ctor, sdconn>>
    /\ UNCHANGED runVars
    /\ UNCHANGED workerVars

\* SqlDict.__delitem__: key not in self, up to the first res.get().
delitem(t, k) ==
    /\ Ready(t)
    /\ sdconn = "conn"
    /\ SubmitSelect(HAS_ITEM, <<k>>)
    /\ Caller(t, "delitem", k, nextId + 1, <<>>, NoRet, AbsGet(k))
    /\ UNCHANGED <<ctor, sdconn>>
    /\ UNCHANGED runVars
    /\ UNCHANGED workerVars

\* SqlDict.__len__, up to the first res.get().
len(t) ==
    /\ Ready(t)
    /\ sdconn = "conn"
    /\ SubmitSelect(GET_LEN, <<>>)
    /\ Caller(t, "len", "", nextId + 1, <<>>, NoRet, AbsLen)
    /\ UNCHANGED <<ctor, sdconn>>
    /\ UNCHANGED runVars
    /\ UNCHANGED workerVars

\* SqlDict.keys: list(self.iterkeys()), up to the first res.get().
keys(t) ==
    /\ Ready(t)
    /\ sdconn = "conn"
    /\ SubmitSelect(GET_KEYS, <<>>)
    /\ Caller(t, "keys", "", nextId + 1, <<>>, NoRet, "")
    /\ UNCHANGED <<ctor, sdconn>>
    /\ UNCHANGED runVars
    /\ UNCHANGED workerVars

\* SqlDict.__bool__, up to the first res.get() of select_one.
bool(t) ==
    /\ Ready(t)
    /\ sdconn = "conn"
    /\ SubmitSelect(GET_MAX_ROWID, <<>>)
    /\ Caller(t, "bool", "", nextId + 1, <<>>, NoRet, AbsLen > 0)
    /\ UNCHANGED <<ctor, sdconn>>
    /\ UNCHANGED runVars
    /\ UNCHANGED workerVars

\* SqlDict.iterkeys(): a call of a generator function makes the generator
\* object and returns it, no line of the body has run.
iterkeys(t) ==
    /\ Ready(t)
    /\ gen[t] = NoGen
    /\ gen' = [gen EXCEPT
                  ![t] = Created({k \in Keys : abs[k] # "missing"})]
    /\ UNCHANGED <<ctor, sdconn, reqs, nextId, sinks, abs, last>>
    /\ UNCHANGED <<tpc, tkey, tsink, tacc, ret, expect>>
    /\ UNCHANGED runVars
    /\ UNCHANGED workerVars

\* The first next() on the generator of iterkeys(), by list(): the bodies
\* of iterkeys and of select begin to run, select makes the result queue
\* and queues the request; up to the first res.get().
iterkeys_next(t) ==
    /\ Ready(t)
    /\ gen[t] # NoGen
    /\ gen' = [gen EXCEPT ![t] = NoGen]
    /\ IF sdconn = "conn"
       THEN /\ SubmitSelect(GET_KEYS, <<>>)
            /\ tpc' = [tpc EXCEPT ![t] = "iterkeys"]
            /\ tsink' = [tsink EXCEPT ![t] = nextId + 1]
            /\ ret' = [ret EXCEPT ![t] = NoRet]
            /\ expect' = [expect EXCEPT ![t] = gen[t].at]
       ELSE /\ ret' = [ret EXCEPT ![t] = [op |-> "iterkeys_next",
                                          key |-> "",
                                          out |-> "AttributeError"]]
            /\ UNCHANGED <<reqs, nextId, sinks, abs, last>>
            /\ UNCHANGED <<tpc, tsink, expect>>
    /\ tkey' = [tkey EXCEPT ![t] = ""]
    /\ tacc' = [tacc EXCEPT ![t] = <<>>]
    /\ UNCHANGED <<ctor, sdconn>>
    /\ UNCHANGED runVars
    /\ UNCHANGED workerVars

\* SqliteMultithread.select_one with a statement the engine rejects, by a
\* caller that holds the SqliteMultithread, up to the first res.get().
select_one_bad(t) ==
    /\ Ready(t)
    /\ SubmitSelect(BAD_STMT, <<>>)
    /\ Caller(t, "select_one", "", nextId + 1, <<>>, NoRet, "")
    /\ UNCHANGED <<ctor, sdconn>>
    /\ UNCHANGED runVars
    /\ UNCHANGED workerVars

\* select_one: the first row of the select, or None.
NoneRow == <<>>

select_one(rec) == IF IsNoMore(rec) THEN NoneRow ELSE rec.data

\* A delete that does not look at the answer of the existence check.
Outcome_no_check(t, item) ==
    CASE tpc[t] = "getitem" ->
           IF item = NoneRow THEN "KeyError" ELSE decode(item[1])
      [] tpc[t] = "delitem" -> "present"
      [] tpc[t] = "len" -> item[1]
      [] tpc[t] = "bool" -> item # NoneRow
      [] OTHER -> item

\* What the operation of t makes of the row select_one returned.
Outcome(t, item) ==
    CASE tpc[t] = "getitem" ->
           IF item = NoneRow THEN "KeyError" ELSE decode(item[1])
      [] tpc[t] = "delitem" ->
           IF item = NoneRow THEN "KeyError" ELSE "present"
      [] tpc[t] = "len" -> item[1]
      [] tpc[t] = "bool" -> item # NoneRow
      [] OTHER -> item

\* rec = res.get() in select, called by select_one: the caller waits until
\* the worker has put something; the generator is abandoned.
select_one_return(t) ==
    /\ tpc[t] \in {"getitem", "delitem", "len", "bool", "select_one"}
    /\ tsink[t] \in DOMAIN sinks
    /\ sinks[tsink[t]] # <<>>
    /\ LET out == Outcome(t, select_one(Head(sinks[tsink[t]])))
           go == tpc[t] = "delitem" /\ out = "present"
       IN Caller(t, IF go THEN "delitem_del" ELSE "idle", tkey[t], NoRes,
                 <<>>, IF go THEN NoRet
                       ELSE [op |-> tpc[t], key |-> tkey[t], out |-> out],
                 expect[t])
    /\ sinks' = SinkDrop(sinks, tsink[t])
    /\ UNCHANGED <<ctor, sdconn, reqs, nextId, abs, last>>
    /\ UNCHANGED runVars
    /\ UNCHANGED workerVars

\* SqlDict.__delitem__: self.conn.execute(DEL_ITEM, (key,)).
delitem_execute(t) ==
    /\ tpc[t] = "delitem_del"
    /\ sdconn = "conn"
    /\ Submit(t, DEL_ITEM, <<tkey[t]>>)
    /\ Caller(t, "idle", tkey[t], NoRes, <<>>,
              [op |-> "delitem", key |-> tkey[t], out |-> "deleted"],
              expect[t])
    /\ UNCHANGED <<ctor, sdconn>>
    /\ UNCHANGED runVars
    /\ UNCHANGED workerVars

\* rec = res.get() in select, called by list(): one row more, or the end.
keys_next(t) ==
    /\ tpc[t] \in {"keys", "iterkeys"}
    /\ tsink[t] \in DOMAIN sinks
    /\ sinks[tsink[t]] # <<>>
    /\ LET rec == Head(sinks[tsink[t]])
       IN IF IsNoMore(rec)
          THEN /\ Caller(t, "idle", "", NoRes, <<>>,
                         [op |-> tpc[t], key |-> "", out |-> tacc[t]],
                         expect[t])
               /\ sinks' = SinkDrop(sinks, tsink[t])
          ELSE /\ Caller(t, tpc[t], "", tsink[t],
                         Append(tacc[t], rec.data[1]), ret[t], expect[t])
               /\ sinks' = [sinks EXCEPT ![tsink[t]] = Tail(@)]
    /\ UNCHANGED <<ctor, sdconn, reqs, nextId, abs, last>>
    /\ UNCHANGED runVars
    /\ UNCHANGED workerVars

\* A commit the caller thread does on the connection itself.
commit_direct(t) ==
    /\ Ready(t)
    /\ sdconn = "conn"
    /\ connState = "open"
    /\ committed' = db
    /\ connUsers' = connUsers \cup {t}
    /\ Caller(t, "idle", "", NoRes, <<>>, NoRet, "")
    /\ UNCHANGED <<ctor, sdconn, reqs, nextId, sinks, abs, last>>
    /\ UNCHANGED runVars
    /\ UNCHANGED <<wpc, cur, cursor, connState, db, exists, completed>>

\* SqliteMultithread.commit, called by SqlDict.commit.
commit(t) ==
    /\ Ready(t)
    /\ sdconn = "conn"
    /\ Submit(t, COMMIT, <<>>)
    /\ UNCHANGED <<ctor, sdconn>>
    /\ UNCHANGED runVars
    /\ UNCHANGED workerVars
    /\ Caller(t, "idle", "", NoRes, <<>>, NoRet, "")

\* SqlDict.clear: self.commit().
clear(t) ==
    /\ Ready(t)
    /\ sdconn = "conn"
    /\ Submit(t, COMMIT, <<>>)
    /\ Caller(t, "clear_execute", "", NoRes, <<>>, NoRet, "")
    /\ UNCHANGED <<ctor, sdconn>>
    /\ UNCHANGED runVars
    /\ UNCHANGED workerVars

\* SqlDict.clear: self.conn.execute(CLEAR_ALL).
clear_execute(t) ==
    /\ tpc[t] = "clear_execute"
    /\ sdconn = "conn"
    /\ Submit(t, CLEAR_ALL, <<>>)
    /\ Caller(t, "clear_commit", "", NoRes, <<>>, NoRet, "")
    /\ UNCHANGED <<ctor, sdconn>>
    /\ UNCHANGED runVars
    /\ UNCHANGED workerVars

\* SqlDict.clear: self.conn.commit().
clear_commit(t) ==
    /\ tpc[t] = "clear_commit"
    /\ sdconn = "conn"
    /\ Submit(t, COMMIT, <<>>)
    /\ Caller(t, "idle", "", NoRes, <<>>, NoRet, "")
    /\ UNCHANGED <<ctor, sdconn>>
    /\ UNCHANGED runVars
    /\ UNCHANGED workerVars

\* SqliteMultithread.close, called by a caller that holds the
\* SqliteMultithread.
close(t) ==
    /\ Ready(t)
    /\ Submit(t, CLOSE, <<>>)
    /\ UNCHANGED <<ctor, sdconn>>
    /\ UNCHANGED runVars
    /\ UNCHANGED workerVars
    /\ Caller(t, "idle", "", NoRes, <<>>, NoRet, "")

\* SqliteMultithread.execute with a statement the engine rejects, by a
\* caller that holds the SqliteMultithread.
execute_bad(t) ==
    /\ Ready(t)
    /\ Submit(t, BAD_STMT, <<>>)
    /\ UNCHANGED <<ctor, sdconn>>
    /\ UNCHANGED runVars
    /\ UNCHANGED workerVars
    /\ Caller(t, "idle", "", NoRes, <<>>, NoRet, "")

\* A close that enqueues no commit before the close request.
SqlDict_close_no_commit(t) ==
    /\ Ready(t)
    /\ sdconn = "conn"
    /\ Caller(t, "close_close", "", NoRes, <<>>, ret[t], expect[t])
    /\ UNCHANGED <<ctor, sdconn, reqs, nextId, sinks, abs, last>>
    /\ UNCHANGED runVars
    /\ UNCHANGED workerVars

\* SqlDict.close: if self.conn is not None: self.conn.commit().
SqlDict_close(t) ==
    /\ Ready(t)
    /\ sdconn = "conn"
    /\ Submit(t, COMMIT, <<>>)
    /\ Caller(t, "close_close", "", NoRes, <<>>, ret[t], expect[t])
    /\ UNCHANGED <<ctor, sdconn>>
    /\ UNCHANGED runVars
    /\ UNCHANGED workerVars

\* SqlDict.close: self.conn.close().
SqlDict_close_close(t) ==
    /\ tpc[t] = "close_close"
    /\ sdconn = "conn"
    /\ Submit(t, CLOSE, <<>>)
    /\ Caller(t, "close_none", "", NoRes, <<>>, ret[t], expect[t])
    /\ UNCHANGED <<ctor, sdconn>>
    /\ UNCHANGED runVars
    /\ UNCHANGED workerVars

\* SqlDict.close: self.conn = None.
SqlDict_close_none(t) ==
    /\ tpc[t] = "close_none"
    /\ sdconn' = "None"
    /\ Caller(t, "idle", "", NoRes, <<>>, ret[t], expect[t])
    /\ UNCHANGED <<ctor, reqs, nextId, sinks, abs, last>>
    /\ UNCHANGED runVars
    /\ UNCHANGED workerVars

\* self.conn is None when the caller comes to use it: AttributeError.
attribute_error(t) ==
    /\ tpc[t] \in {"delitem_del", "close_close", "clear_execute",
                  "clear_commit"}
    /\ sdconn = "None"
    /\ Caller(t, "idle", "", NoRes, <<>>,
              [op |-> tpc[t], key |-> tkey[t], out |-> "AttributeError"],
              expect[t])
    /\ UNCHANGED <<ctor, sdconn, reqs, nextId, sinks, abs, last>>
    /\ UNCHANGED runVars
    /\ UNCHANGED workerVars

\* ---------------------------------------------------------- specification
Next ==
    \/ SqliteMultithread_init
    \/ SqlDict_init_make
    \/ SqlDict_init_commit
    \/ run_connect
    \/ run_get
    \/ run_commit
    \/ run_execute
    \/ run_put_rec
    \/ run_put_no_more
    \/ run_autocommit
    \/ run_close
    \/ \E t \in Threads, k \in Keys, v \in Vals : setitem(t, k, v)
    \/ \E t \in Threads, items \in UpdateItems : update(t, items)
    \/ \E t \in Threads : executemany_execute(t)
    \/ \E t \in Threads, k \in Keys : getitem(t, k)
    \/ \E t \in Threads, k \in Keys : delitem(t, k)
    \/ \E t \in Threads : len(t)
    \/ \E t \in Threads : keys(t)
    \/ \E t \in Threads : select_one_bad(t)
    \/ \E t \in Threads : select_one_return(t)
    \/ \E t \in Threads : delitem_execute(t)
    \/ \E t \in Threads : keys_next(t)
    \/ \E t \in Threads : commit(t)
    \/ \E t \in Threads : close(t)
    \/ \E t \in Threads : execute_bad(t)
    \/ \E t \in Threads : SqlDict_close(t)
    \/ \E t \in Threads : SqlDict_close_close(t)
    \/ \E t \in Threads : SqlDict_close_none(t)
    \/ \E t \in Threads : attribute_error(t)

Spec == Init /\ [][Next]_vars

\* One caller thread uses the dictionary: self.conn is never set to None
\* under its feet.
NextSingle ==
    \/ SqliteMultithread_init
    \/ SqlDict_init_make
    \/ SqlDict_init_commit
    \/ run_connect
    \/ run_get
    \/ run_commit
    \/ run_execute
    \/ run_put_rec
    \/ run_put_no_more
    \/ run_autocommit
    \/ run_close
    \/ \E t \in Threads, k \in Keys, v \in Vals : setitem(t, k, v)
    \/ \E t \in Threads, items \in UpdateItems : update(t, items)
    \/ \E t \in Threads : executemany_execute(t)
    \/ \E t \in Threads, k \in Keys : getitem(t, k)
    \/ \E t \in Threads, k \in Keys : delitem(t, k)
    \/ \E t \in Threads : len(t)
    \/ \E t \in Threads : keys(t)
    \/ \E t \in Threads : select_one_bad(t)
    \/ \E t \in Threads : select_one_return(t)
    \/ \E t \in Threads : delitem_execute(t)
    \/ \E t \in Threads : keys_next(t)
    \/ \E t \in Threads : commit(t)
    \/ \E t \in Threads : close(t)
    \/ \E t \in Threads : execute_bad(t)
    \/ \E t \in Threads : SqlDict_close(t)
    \/ \E t \in Threads : SqlDict_close_close(t)
    \/ \E t \in Threads : SqlDict_close_none(t)

SpecSingle == InitSingle /\ [][NextSingle]_vars

\* The callers only write, commit and ask for the length: nothing is
\* deleted, no statement fails, nobody closes.
NextWriters ==
    \/ SqliteMultithread_init
    \/ SqlDict_init_make
    \/ SqlDict_init_commit
    \/ run_connect
    \/ run_get
    \/ run_commit
    \/ run_execute
    \/ run_put_rec
    \/ run_put_no_more
    \/ run_autocommit
    \/ \E t \in Threads, k \in Keys, v \in Vals : setitem(t, k, v)
    \/ \E t \in Threads : len(t)
    \/ \E t \in Threads : select_one_return(t)
    \/ \E t \in Threads : commit(t)

SpecWriters == InitWriters /\ [][NextWriters]_vars

\* One caller writes, clears, and asks for the length and for emptiness.
NextClear ==
    \/ SqliteMultithread_init
    \/ SqlDict_init_make
    \/ SqlDict_init_commit
    \/ run_connect
    \/ run_get
    \/ run_commit
    \/ run_execute
    \/ run_put_rec
    \/ run_put_no_more
    \/ run_autocommit
    \/ \E t \in Threads, k \in Keys, v \in Vals : setitem(t, k, v)
    \/ \E t \in Threads : clear(t)
    \/ \E t \in Threads : clear_execute(t)
    \/ \E t \in Threads : clear_commit(t)
    \/ \E t \in Threads : len(t)
    \/ \E t \in Threads : bool(t)
    \/ \E t \in Threads : select_one_return(t)

SpecClear == InitClear /\ [][NextClear]_vars

\* One caller writes and lists the keys through iterkeys().
NextIter ==
    \/ SqliteMultithread_init
    \/ SqlDict_init_make
    \/ SqlDict_init_commit
    \/ run_connect
    \/ run_get
    \/ run_commit
    \/ run_execute
    \/ run_put_rec
    \/ run_put_no_more
    \/ run_autocommit
    \/ \E t \in Threads, k \in Keys, v \in Vals : setitem(t, k, v)
    \/ \E t \in Threads : iterkeys(t)
    \/ \E t \in Threads : iterkeys_next(t)
    \/ \E t \in Threads : keys_next(t)

SpecIter == InitIter /\ [][NextIter]_vars

\* Two callers write and delete.
NextDelete ==
    \/ SqliteMultithread_init
    \/ SqlDict_init_make
    \/ SqlDict_init_commit
    \/ run_connect
    \/ run_get
    \/ run_commit
    \/ run_execute
    \/ run_put_rec
    \/ run_put_no_more
    \/ run_autocommit
    \/ \E t \in Threads, k \in Keys, v \in Vals : setitem(t, k, v)
    \/ \E t \in Threads, k \in Keys : delitem(t, k)
    \/ \E t \in Threads : select_one_return(t)
    \/ \E t \in Threads : delitem_execute(t)

SpecDelete == InitDelete /\ [][NextDelete]_vars

\* ================================================================= claims
Waiting == {"getitem", "delitem", "len", "bool", "keys", "iterkeys",
            "select_one"}

HasNoMore(q) == \E i \in 1..Len(q) : IsNoMore(q[i])

\* Any step of caller thread t.
CallerStep(t) ==
    \/ \E k \in Keys, v \in Vals : setitem(t, k, v)
    \/ \E items \in UpdateItems : update(t, items)
    \/ executemany_execute(t)
    \/ \E k \in Keys : getitem(t, k)
    \/ \E k \in Keys : delitem(t, k)
    \/ len(t)
    \/ keys(t)
    \/ select_one_bad(t)
    \/ select_one_return(t)
    \/ delitem_execute(t)
    \/ keys_next(t)
    \/ commit(t)
    \/ close(t)
    \/ execute_bad(t)
    \/ SqlDict_close(t)
    \/ SqlDict_close_close(t)
    \/ SqlDict_close_none(t)
    \/ attribute_error(t)
    \/ bool(t)
    \/ iterkeys(t)
    \/ iterkeys_next(t)
    \/ clear(t)
    \/ clear_execute(t)
    \/ clear_commit(t)

\* C1: the requests are dequeued in the order they were enqueued, none is
\* skipped and none taken twice: the queue holds exactly the requests after
\* the one dequeued last, in order; and the worker takes a request only when
\* the one before is fully executed, so at most one request is in progress.
C1_InOrder ==
    /\ \A i \in 1..Len(reqs) : reqs[i].seq = cur.seq + i
    /\ cur.seq + Len(reqs) = nextId
    /\ completed \in {cur.seq - 1, cur.seq}
    /\ wpc = "get" => completed = cur.seq

\* Both callers have written, the worker has executed four requests and
\* another one waits in the queue.
C1_Witness ==
    /\ completed = 4
    /\ reqs # <<>>
    /\ last["a"].by = "t1"
    /\ last["b"].by = "t2"

\* C2: only the worker thread ever uses the connection.
C2_ConnectionOnlyWorker == connUsers \subseteq {Worker}

\* The callers have written and closed, the worker has used the connection
\* up to closing it.
C2_Witness ==
    /\ connUsers = {Worker}
    /\ connState = "closed"
    /\ \E k \in Keys : last[k].by \in Threads

\* C3: no lost updates. With callers that only write and commit, a length
\* read returns the number of keys submitted before it; and when the worker
\* has drained the queue and the request it executed last is a commit, the
\* committed table holds exactly the mapping submitted.
C3_NoLostUpdates ==
    /\ \A t \in Threads : ret[t].op = "len" => ret[t].out = expect[t]
    /\ (wpc = "get" /\ reqs = <<>> /\ cur.req = COMMIT)
           => AbsOf(committed) = abs

\* Two threads have written one key each into the empty table, then a commit
\* and a length read were submitted; the read returned 2 and both rows are
\* committed.
C3_Witness ==
    /\ ~autocommit
    /\ last["a"] = [by |-> "t1", prev |-> "missing"]
    /\ last["b"] = [by |-> "t2", prev |-> "missing"]
    /\ \E t \in Threads : ret[t].op = "len" /\ ret[t].out = 2
    /\ Len(committed) = 2

\* C4: read-after-write. A Get returns the value of the most recent Set of
\* its key submitted before it, and raises KeyError when the key was never
\* set or was deleted last.
C4_ReadAfterWrite ==
    \A t \in Threads : ret[t].op = "getitem" => ret[t].out = expect[t]

\* Without autocommit and without a commit after the writes, the single
\* caller has set "b" to "x", then to "y", and its Get has returned "y".
C4_Witness ==
    /\ ~autocommit
    /\ last["b"] = [by |-> "t1", prev |-> "x"]
    /\ ret["t1"] = [op |-> "getitem", key |-> "b", out |-> "y"]
    /\ cur.req = GET_ITEM
    /\ committed # db

\* C5: for every select the worker has dequeued it puts '--no more--' on the
\* result queue: the worker is never gone with a caller waiting on the
\* queue of a select it took.
C5_SentinelAlwaysPut ==
    \A t \in Threads :
        (tpc[t] \in Waiting /\ tsink[t] = cur.res /\ wpc = "crashed")
            => HasNoMore(sinks[tsink[t]])

\* C6: a request whose statement fails does not end the worker.
C6_FailureIsolated == ~(wpc = "crashed" /\ Raises(cur.req, exists))

\* C7 as claimed: processing '--close--' commits what the connection has
\* not committed.
C7_CloseCommits ==
    [][(wpc = "close" /\ wpc' = "stopped") => committed' = db]_vars

\* C7 as amended: processing '--close--' closes the connection without a
\* commit: the committed table stays as it is and what was not committed is
\* gone.
C7_CloseDoesNotCommit ==
    [][(wpc = "close" /\ wpc' = "stopped")
           => (committed' = committed /\ db' = committed)]_vars

\* Without autocommit the worker has stopped on a '--close--' that was the
\* last request enqueued, and a write submitted before it is not committed.
C7_Witness ==
    /\ ~autocommit
    /\ wpc = "stopped"
    /\ reqs = <<>>
    /\ cur.seq = nextId
    /\ AbsOf(committed) # abs

\* C8: once the worker has dequeued '--close--' it dequeues nothing more and
\* commits nothing more, and once it has closed the connection its state and
\* the table never change again.
C8_StoppedIsTerminal ==
    [][(cur.req = CLOSE =>
           /\ cur' = cur
           /\ committed' = committed
           /\ wpc' \in {"close", "stopped"})
       /\ (wpc = "stopped" => UNCHANGED workerVars)]_vars

\* The worker has stopped and requests enqueued after '--close--' are left
\* in the queue.
C8_Witness ==
    /\ wpc = "stopped"
    /\ Len(reqs) >= 2
    /\ \E t \in Threads : tpc[t] \in Waiting

\* C9: execute, executemany, commit and close never block: whenever a
\* caller is at one of them it can take its step, whatever the worker does
\* and however long the queue is; a caller that cannot take a step is
\* waiting on the result queue of a select.
C9_SubmitNeverBlocks ==
    \A t \in Threads :
        (ctor = "returned" /\ nextId < limit) =>
            /\ tpc[t] = "idle" =>
                   /\ ENABLED close(t)
                   /\ ENABLED execute_bad(t)
                   /\ sdconn = "conn" =>
                          /\ ENABLED commit(t)
                          /\ ENABLED setitem(t, "a", "x")
                          /\ ENABLED update(t, << <<"a", "y">> >>)
            /\ tpc[t] = "executemany" => ENABLED executemany_execute(t)
            /\ ~ENABLED CallerStep(t) => tpc[t] \in Waiting

\* The worker has stopped, a request is left in the queue, one caller waits
\* on its result queue and the other can still submit.
C9_Witness ==
    /\ wpc = "stopped"
    /\ reqs # <<>>
    /\ nextId < limit
    /\ tpc["t1"] \in Waiting
    /\ ~ENABLED CallerStep("t1")
    /\ ENABLED commit("t2")

\* C10: the constructor does not return normally when the connection cannot
\* be opened.
C10_StartupFailureSurfaced ==
    ~(ctor = "returned" /\ wpc = "crashed" /\ connState = "none")


\* C11: after clear() the length is 0 and the non-empty probe __bool__
\* reports empty; in general the probe answers True exactly when the
\* mapping the caller has submitted holds at least one key, and the length
\* is the number of its keys.
C11_ProbeIffNonEmpty ==
    \A t \in Threads :
        ret[t].op \in {"len", "bool"} => ret[t].out = expect[t]


\* C12: a delete of a key that is absent from the mapping the callers have
\* submitted raises KeyError, and the call enqueues no request and changes
\* nothing in the table: the step that ends the existence check returns.
C12_AbsentDeleteNoMutation ==
    [][\A t \in Threads :
        (tpc[t] = "delitem" /\ tpc'[t] # "delitem"
                            /\ expect[t] = "KeyError")
        => /\ tpc'[t] = "idle"
           /\ ret'[t] = [op |-> "delitem", key |-> tkey[t],
                         out |-> "KeyError"]
           /\ UNCHANGED <<reqs, nextId, db, committed, abs>>]_vars

C12_Witness ==
    \E t \in Threads :
        /\ tpc[t] = "idle"
        /\ ret[t] = [op |-> "delitem", key |-> "b", out |-> "KeyError"]
        /\ expect[t] = "KeyError"
        /\ ~HasKey(db, "b")


\* Any step of the worker thread.
WorkerStep ==
    \/ run_connect
    \/ run_get
    \/ run_commit
    \/ run_execute
    \/ run_put_rec
    \/ run_put_no_more
    \/ run_autocommit
    \/ run_close

StoppedBySqlDictClose ==
    /\ wpc = "stopped"
    /\ cur.seq = nextId
    /\ (sdconn = "None" \/ \E t \in actors : tpc[t] = "close_none")

\* C14: SqlDict.close() enqueues a commit and then the close: when the
\* worker has closed the connection on that close, every write the closing
\* thread had submitted is executed and committed, the committed table is
\* the mapping as submitted, without autocommit as well.
C14_SqlDictCloseCommits ==
    StoppedBySqlDictClose => AbsOf(committed) = abs

C14_Witness ==
    /\ ~autocommit
    /\ StoppedBySqlDictClose
    /\ AbsOf(committed) = abs
    /\ \E k \in Keys : last[k].by = "t1" /\ abs[k] # "missing"


C16_OneRequestPerItem ==
    [][\A t \in Threads :
        /\ ~ENABLED (update(t, <<>>) /\ nextId' # nextId)
        /\ (tpc[t] = "idle" /\ tpc'[t] = "executemany")
           => /\ Len(reqs') = Len(reqs) + 1
              /\ SubSeq(reqs', 1, Len(reqs)) = reqs
              /\ reqs'[Len(reqs')].req = ADD_ITEM
              /\ reqs'[Len(reqs')].res = NoRes
              /\ <<reqs'[Len(reqs')].arg>> \o tacc'[t]
                    \in {Encoded(items) : items \in UpdateItems}
        /\ tpc[t] = "executemany" =>
              \/ tacc'[t] = tacc[t] /\ tpc'[t] = tpc[t]
              \/ /\ reqs' = Append(reqs, [seq |-> nextId + 1,
                                          req |-> ADD_ITEM,
                                          arg |-> Head(tacc[t]),
                                          res |-> NoRes])
                 /\ tacc'[t] = Tail(tacc[t])]_vars

\* A thread is between the two requests of its update, and the request
\* enqueued last is the select of another thread.
C16_Witness ==
    /\ tpc["t1"] = "executemany"
    /\ Len(reqs) >= 2
    /\ reqs[Len(reqs) - 1].req = ADD_ITEM
    /\ reqs[Len(reqs) - 1].arg = <<"a", encode("y")>>
    /\ reqs[Len(reqs)].res # NoRes


\* C17: with autocommit the worker commits after each statement before it
\* dequeues the next request: whenever it comes to wait on the request
\* queue nothing is uncommitted. Without autocommit what is committed
\* changes only when the worker processes a '--commit--'.
C17_AutocommitCommitsEach ==
    [][/\ (autocommit /\ wpc' = "get") => committed' = db'
       /\ (~autocommit /\ committed' # committed)
          => (cur.req = COMMIT /\ wpc = "commit")]_vars

C17_Witness ==
    /\ autocommit
    /\ wpc = "get"
    /\ cur.req = ADD_ITEM
    /\ committed = db
    /\ AbsOf(committed)["b"] = "y"


\* At most one sentinel in a result queue, and nothing behind it.
SinkWellFormed(q) == \A i \in 1..Len(q) : IsNoMore(q[i]) => i = Len(q)

\* C18: a result queue starts empty, and only the worker adds to it, only
\* while it handles the request the queue was created with: each time the
\* next row of that statement's cursor, in the cursor's order, and after
\* the last row the sentinel, once, with nothing behind it; no two callers
\* read the same queue.
C18_SinkOnlyItsRequest ==
    [][/\ \A id \in DOMAIN sinks' :
            /\ SinkWellFormed(sinks'[id])
            /\ id \notin DOMAIN sinks => sinks'[id] = <<>>
            /\ (id \in DOMAIN sinks /\ Len(sinks'[id]) > Len(sinks[id]))
               => /\ wpc = "rows"
                  /\ cur.res = id
                  /\ cur.seq = id
                  /\ sinks'[id] =
                        Append(sinks[id], IF cursor # <<>>
                                          THEN Row(Head(cursor))
                                          ELSE NoMore)
                  /\ cursor # <<>> => cursor' = Tail(cursor)
                  /\ cursor = <<>> => wpc' # "rows"
       /\ \A t, u \in Threads :
            (t # u /\ tpc'[t] \in Waiting /\ tpc'[u] \in Waiting)
            => tsink'[t] # tsink'[u]]_vars

\* Two selects of two threads are answered and unread: the length in the
\* queue of one, the keys in the queue of the other.
C18_Witness ==
    \E t, u \in Threads :
        /\ tpc[t] = "len"
        /\ tpc[u] = "keys"
        /\ sinks[tsink[t]] = <<Row(<<1>>), NoMore>>
        /\ sinks[tsink[u]] = <<Row(<<"a">>), NoMore>>


\* C19: a delete is not atomic: between the return of its existence check
\* and the enqueue of its delete statement the caller holds nothing that
\* keeps other callers out. While a thread is between the two, any other
\* idle thread can enqueue a write or a delete of the same key, and the
\* thread enqueues its delete statement whatever has happened to the key
\* since the check.
C19_DeleteNotAtomic ==
    \A t \in Threads :
        (tpc[t] = "delitem_del" /\ nextId < limit) =>
            /\ ENABLED delitem_execute(t)
            /\ \A u \in actors \ {t} :
                  /\ tpc[u] = "idle" =>
                        /\ ENABLED setitem(u, tkey[t], "y")
                        /\ ENABLED delitem(u, tkey[t])
                  /\ tpc[u] = "delitem_del" => ENABLED delitem_execute(u)

\* Both threads have deleted "a" without a KeyError, and when the second
\* delete statement was enqueued the key was already deleted.
C19_Witness ==
    /\ \A t \in Threads :
          ret[t] = [op |-> "delitem", key |-> "a", out |-> "deleted"]
    /\ last["a"].prev = "missing"
    /\ completed = nextId

\* A thread has deleted "a": its check saw the value "x", the value "y"
\* another thread set after the check is what its delete removed.
C19_SetRemoved ==
    \E t \in Threads :
        /\ ret[t] = [op |-> "delitem", key |-> "a", out |-> "deleted"]
        /\ expect[t] = "x"
        /\ last["a"] = [by |-> t, prev |-> "y"]
        /\ completed = nextId
        /\ ~HasKey(db, "a")


\* The request with sequence number id was enqueued behind a '--close--'.
BehindClose(id) ==
    \/ cur.req = CLOSE /\ cur.seq < id
    \/ \E i \in 1..Len(reqs) : reqs[i].req = CLOSE /\ reqs[i].seq < id

\* C20: a select enqueued behind a '--close--' never gets a row or the
\* sentinel and its caller waits for ever: in every state its result queue
\* is empty and its caller has no step to take, and every step leaves it
\* so, behind the '--close--' with its caller waiting on the empty queue.
C20_SelectBehindCloseStarves ==
    [][\A t \in Threads :
        (tpc[t] \in Waiting /\ BehindClose(tsink[t]))
        => /\ tsink[t] \in DOMAIN sinks
           /\ sinks[tsink[t]] = <<>>
           /\ ~ENABLED CallerStep(t)
           /\ tpc'[t] = tpc[t]
           /\ tsink'[t] = tsink[t]
           /\ BehindClose(tsink[t])'
           /\ tsink[t] \in DOMAIN sinks'
           /\ sinks'[tsink[t]] = <<>>]_vars

C20_Witness ==
    /\ wpc = "stopped"
    /\ \E t \in Threads :
          /\ tpc[t] \in Waiting
          /\ cur.seq < tsink[t]
          /\ sinks[tsink[t]] = <<>>
          /\ \E i \in 1..Len(reqs) : reqs[i].res = tsink[t]

====
